---- MODULE Spec2Model ----
(***************************************************************************)
(* Model of redash/tasks/queries/maintenance.py: the periodic maintenance  *)
(* jobs refresh_queries, refresh_schema and refresh_schemas.               *)
(*                                                                         *)
(* The specifications share the module's variables:                        *)
(*   Spec           one refresh_queries pass, statement by statement;      *)
(*   SpecFaults     Spec, where enqueue_query and track_failure may raise; *)
(*   SpecOverlap    a refresh_queries pass overlapped by another one;      *)
(*   SpecSchemaTask invocations of the refresh_schema job;                 *)
(*   SpecSchemas    one refresh_schemas pass;                              *)
(*   SpecBlacklist  refresh_schemas passes while the blacklist changes;    *)
(*   SpecCleanup    runs of cleanup_query_results;                         *)
(*   SpecDispatch   both passes next to the execution of their jobs.       *)
(* In each of them the variables of the other jobs stay idle.  In Spec the *)
(* substitution either returns or raises one of its two errors, and        *)
(* enqueue_query, track_failure, redis and statsd return.  In              *)
(* SpecSchemaTask the lookup and the schema fetch may raise, and the       *)
(* worker's job timeout may be raised at any position of the job.          *)
(***************************************************************************)
EXTENDS Integers, Sequences, FiniteSets, TLC

\* ------------------------------------------------------------------ bounds
MaxQueries == 2      \* length of the outdated_queries() enumeration
MaxClock == 1        \* time.time() readings are 0..MaxClock
MaxRuns == 2         \* refresh_schema invocations in one behaviour
MaxSources == 2      \* rows of the data source table
MaxResults == 3      \* rows of the query results table
MaxDays == 2         \* ages of query results are 0..MaxDays days
QUERY_RESULTS_CLEANUP_COUNT == 2     \* settings value used in the model
QUERY_RESULTS_CLEANUP_MAX_AGE == 1   \* settings value used in the model, in days

VARIABLES
    \* refresh_queries
    pc,                      \* position of the pass in refresh_queries
    feature_disabled,        \* settings.FEATURE_DISABLE_REFRESH_QUERIES
    outdated,                \* ids of models.Query.outdated_queries(), in order
    idx,                     \* number of queries of the enumeration visited
    query,                   \* the loop variable
    outdated_queries_count,
    query_ids,
    status,                  \* local: redis hgetall result (line 94)
    now,                     \* local: time.time() (line 95)
    redis_status,            \* the redis hash "redash:status"
    clock,                   \* latest time.time() reading
    applied,                 \* calls of query.parameterized.apply
    enqueued,                \* calls of enqueue_query
    failures,                \* calls of track_failure
    log,                     \* logger lines of the loop
    gauges,                  \* statsd gauges
    \* refresh_schema
    task_pc,                 \* position of the job in refresh_schema
    data_source_id,          \* the job's argument
    ds,                      \* local: the row get_by_id returned
    alarm,                   \* the worker's job timeout: "armed", or where it was raised
    incrs,                   \* statsd_client.incr calls of this invocation
    task_log,                \* logger lines of this invocation
    counters,                \* the statsd counters refresh_schema.*
    runs,                    \* invocations started
    \* refresh_schemas
    sched_pc,                \* position of the pass in refresh_schemas
    blacklist_store,         \* the redis set "data_sources:schema:blacklist"
    blacklist,               \* local: the ids read from the set
    sources,                 \* rows of models.DataSource.query, in order
    scanned,                 \* number of rows visited
    sched_log,               \* logger lines of the loop
    submitted,               \* refresh_schema.delay calls
    last_pass,               \* log lines and delay calls of the pass before
    \* an overlapping refresh_queries invocation, after its loop
    other_pc,                \* its position in lines 94-108
    other_result,            \* its outdated_queries_count and query_ids
    other_status,            \* its local status
    other_now,               \* its local now
    other_after,             \* its hmset came after the first pass's hmset
    \* cleanup_query_results
    cleanup_pc,              \* position of the run
    query_results,           \* rows of the query results table
    deleted,                 \* rows the latest run deleted
    deleted_count,           \* local: deleted_count
    \* the execution subsystem
    query_jobs_done,         \* enqueued query jobs it has executed
    schema_jobs_done         \* submitted refresh_schema jobs it has executed

qvars == <<pc, feature_disabled, outdated, idx, query, outdated_queries_count,
           query_ids, status, now, redis_status, clock, applied, enqueued,
           failures, log, gauges>>

tvars == <<task_pc, data_source_id, ds, alarm, incrs, task_log, counters, runs>>

svars ==
    <<sched_pc, blacklist_store, blacklist, sources, scanned, sched_log, submitted, last_pass>>

ovars == <<other_pc, other_result, other_status, other_now, other_after>>

cvars == <<cleanup_pc, query_results, deleted, deleted_count>>

jvars == <<query_jobs_done, schema_jobs_done>>

xvars == <<ovars, cvars, jvars>>

vars == <<qvars, tvars, svars, xvars>>

\* ------------------------------------------------------------ data model
None == "None"                      \* Python's None as a parameter value
P(name, value) == [name |-> name, value |-> value]
\* query.parameters: none, one descriptor of each shape, and a name declared twice
ParamLists ==
    { <<>>, <<P("n", None)>>, <<P("n", "42")>>, <<P("", None)>>,
      <<P("n", "42"), P("n", None)>> }

NoDataSource == [id |-> 0, name |-> "None", paused |-> FALSE, pause_reason |-> "None"]
DataSources ==
    { [id |-> 1, name |-> "ds1", paused |-> FALSE, pause_reason |-> "None"],
      [id |-> 2, name |-> "ds2", paused |-> TRUE, pause_reason |-> "maintenance"] }

QueryIds == 1..MaxQueries
InnerIds == {9}                     \* ids of dropdown queries referenced by parameters
UserIds == {7}

StoredText(id) == <<"select", ToString(id)>>
AppliedText(id) == <<"select", ToString(id), "with-values">>

QueriesWithId(id) ==
    [id : {id}, org : [is_disabled : BOOLEAN], data_source : {NoDataSource} \cup DataSources,
     parameters : ParamLists, user_id : UserIds, query_text : {StoredText(id)}]

NoQuery ==
    [id |-> 0, org |-> [is_disabled |-> FALSE], data_source |-> NoDataSource,
     parameters |-> <<>>, user_id |-> 0, query_text |-> <<>>]

\* injective sequences of query ids: a point-in-time list of distinct rows
Enumerations ==
    UNION {{s \in [1..n -> QueryIds] : \A i, j \in 1..n : i # j => s[i] # s[j]} : n \in 0..MaxQueries}

\* -------------------------------------------------------- pure helpers
\* json_dumps of a list of integers
RECURSIVE JoinIds(_)
JoinIds(s) ==
    IF s = <<>> THEN <<>>
    ELSE IF Len(s) = 1 THEN <<ToString(s[1])>>
    ELSE <<ToString(s[1]), ", ">> \o JoinIds(Tail(s))

JsonDumps(s) == <<"[">> \o JoinIds(s) \o <<"]">>

\* {p["name"]: p.get("value") for p in query.parameters}: the last descriptor
\* of a name wins
ParameterDict(ps) ==
    [nm \in {ps[i].name : i \in DOMAIN ps} |->
        LET last == CHOOSE i \in DOMAIN ps :
                        /\ ps[i].name = nm
                        /\ \A j \in DOMAIN ps : ps[j].name = nm => j <= i
        IN ps[last].value]

\* any(parameters): iterating a dict yields its keys; a key is truthy when it
\* is a non-empty string
AnyParameters(parameters) == \E nm \in DOMAIN parameters : nm # ""

\* mutant: the data source tests moved ahead of the organization test
SkipReasonDataSourceFirst(q) ==
    IF feature_disabled THEN "feature-disabled"
    ELSE IF q.data_source = NoDataSource THEN "no-data-source"
    ELSE IF q.data_source.paused THEN "data-source-paused"
    ELSE IF q.org.is_disabled THEN "org-disabled"
    ELSE "eligible"

\* the if/elif chain of lines 38-55
SkipReason(q) ==
    IF feature_disabled THEN "feature-disabled"
    ELSE IF q.org.is_disabled THEN "org-disabled"
    ELSE IF q.data_source = NoDataSource THEN "no-data-source"
    ELSE IF q.data_source.paused THEN "data-source-paused"
    ELSE "eligible"

InvalidParametersError(id, e) ==
    <<"Skipping refresh of ", ToString(id), " because of invalid parameters: ", e>>

\* mutant: the message formatted with query.id twice, e.query_id dropped
DetachedErrorOuterOnly(id, inner) ==
    <<"Skipping refresh of ", ToString(id), " because a related dropdown query (",
      ToString(id), ") is unattached to any datasource.">>

DetachedError(id, inner) ==
    <<"Skipping refresh of ", ToString(id), " because a related dropdown query (",
      ToString(inner), ") is unattached to any datasource.">>

NoStatus == [present |-> FALSE, outdated_queries_count |-> 0, last_refresh_at |-> 0,
             query_ids |-> <<>>]
PreviousStatus == [present |-> TRUE, outdated_queries_count |-> 1, last_refresh_at |-> 0,
                   query_ids |-> JsonDumps(<<1>>)]

\* ------------------------------------------------------- refresh_queries
InitQueries ==
    /\ pc = "idle"
    /\ feature_disabled \in BOOLEAN
    /\ outdated = <<>>
    /\ idx = 0
    /\ query = NoQuery
    /\ outdated_queries_count = 0
    /\ query_ids = <<>>
    /\ status = NoStatus
    /\ now = 0
    /\ redis_status \in {NoStatus, PreviousStatus}
    /\ clock = 0
    /\ applied = <<>>
    /\ enqueued = <<>>
    /\ failures = <<>>
    /\ log = <<>>
    /\ gauges = <<>>

\* lines 31-37: the locals and the enumeration
Begin ==
    /\ pc = "idle"
    /\ \E e \in Enumerations : outdated' = e
    /\ outdated_queries_count' = 0
    /\ query_ids' = <<>>
    /\ pc' = "loop"
    /\ UNCHANGED <<tvars, svars, xvars, feature_disabled, idx, query, status, now, redis_status, clock,
                   applied, enqueued, failures, log, gauges>>

\* line 37: the rows the next iteration may bind to the loop variable
Candidates ==
    IF pc = "loop" /\ idx < Len(outdated) THEN QueriesWithId(outdated[idx + 1]) ELSE {}

Advance(q) ==
    /\ query' = q
    /\ idx' = idx + 1

LogLine(msg, args) == [msg |-> msg, args |-> args, at |-> idx + 1]

\* mutant: the pass returns at the first query it finds refreshes disabled for
SkipFeatureDisabledReturns ==
    \E q \in Candidates :
        /\ SkipReason(q) = "feature-disabled"
        /\ log' = Append(log, LogLine("Disabled refresh queries.", <<>>))
        /\ Advance(q)
        /\ pc' = "done"
        /\ UNCHANGED <<tvars, svars, xvars, feature_disabled, outdated, outdated_queries_count, query_ids,
                       status, now, redis_status, clock, applied, enqueued, failures, gauges>>

\* lines 38-39
SkipFeatureDisabled ==
    \E q \in Candidates :
        /\ SkipReason(q) = "feature-disabled"
        /\ log' = Append(log, LogLine("Disabled refresh queries.", <<>>))
        /\ Advance(q)
        /\ UNCHANGED <<tvars, svars, xvars, pc, feature_disabled, outdated, outdated_queries_count, query_ids,
                       status, now, redis_status, clock, applied, enqueued, failures, gauges>>

\* lines 40-43
SkipOrgDisabled ==
    \E q \in Candidates :
        /\ SkipReason(q) = "org-disabled"
        /\ log' = Append(log, LogLine("Skipping refresh of %s because org is disabled.",
                                      <<ToString(q.id)>>))
        /\ Advance(q)
        /\ UNCHANGED <<tvars, svars, xvars, pc, feature_disabled, outdated, outdated_queries_count, query_ids,
                       status, now, redis_status, clock, applied, enqueued, failures, gauges>>

\* lines 44-47
SkipNoDataSource ==
    \E q \in Candidates :
        /\ SkipReason(q) = "no-data-source"
        /\ log' = Append(log, LogLine("Skipping refresh of %s because the datasource is none.",
                                      <<ToString(q.id)>>))
        /\ Advance(q)
        /\ UNCHANGED <<tvars, svars, xvars, pc, feature_disabled, outdated, outdated_queries_count, query_ids,
                       status, now, redis_status, clock, applied, enqueued, failures, gauges>>

\* lines 48-54
SkipPaused ==
    \E q \in Candidates :
        /\ SkipReason(q) = "data-source-paused"
        /\ log' = Append(log,
                LogLine("Skipping refresh of %s because datasource - %s is paused (%s).",
                        <<ToString(q.id), q.data_source.name, q.data_source.pause_reason>>))
        /\ Advance(q)
        /\ UNCHANGED <<tvars, svars, xvars, pc, feature_disabled, outdated, outdated_queries_count, query_ids,
                       status, now, redis_status, clock, applied, enqueued, failures, gauges>>

\* lines 76-85
EnqueueCall(q, query_text) ==
    [query_text |-> query_text, data_source |-> q.data_source, user_id |-> q.user_id,
     scheduled_query |-> q.id,
     metadata |-> [QueryID |-> q.id, Username |-> "Scheduled"]]

Dispatch(q, query_text) ==
    /\ enqueued' = Append(enqueued, EnqueueCall(q, query_text))
    /\ query_ids' = Append(query_ids, q.id)
    /\ outdated_queries_count' = outdated_queries_count + 1

\* lines 55-59, 76-85: any(parameters) is false
DispatchStored ==
    \E q \in Candidates :
        /\ SkipReason(q) = "eligible"
        /\ ~AnyParameters(ParameterDict(q.parameters))
        /\ Dispatch(q, q.query_text)
        /\ Advance(q)
        /\ UNCHANGED <<tvars, svars, xvars, pc, feature_disabled, outdated, status, now, redis_status, clock,
                       applied, failures, log, gauges>>

\* query.parameterized.apply(parameters) and how it ended
Returned == [kind |-> "returned", query_id |-> 0]
InvalidParameterError == [kind |-> "InvalidParameterError", query_id |-> 0]
QueryDetachedFromDataSourceError(inner) ==
    [kind |-> "QueryDetachedFromDataSourceError", query_id |-> inner]

ApplyCall(q, outcome) ==
    [query |-> q.id, parameters |-> ParameterDict(q.parameters), outcome |-> outcome]

\* lines 55-61, 76-85: the substitution returns the resolved text
DispatchApplied ==
    \E q \in Candidates :
        /\ SkipReason(q) = "eligible"
        /\ AnyParameters(ParameterDict(q.parameters))
        /\ applied' = Append(applied, ApplyCall(q, Returned))
        /\ Dispatch(q, AppliedText(q.id))
        /\ Advance(q)
        /\ UNCHANGED <<tvars, svars, xvars, pc, feature_disabled, outdated, status, now, redis_status, clock,
                       failures, log, gauges>>

TrackFailure(q, error) == failures' = Append(failures, [query |-> q.id, error |-> error])

\* mutant: no except clause for InvalidParameterError, the error leaves the pass
TrackInvalidParametersRaises ==
    \E q \in Candidates :
        /\ SkipReason(q) = "eligible"
        /\ AnyParameters(ParameterDict(q.parameters))
        /\ applied' = Append(applied, ApplyCall(q, InvalidParameterError))
        /\ Advance(q)
        /\ pc' = "raised"
        /\ UNCHANGED <<tvars, svars, xvars, feature_disabled, outdated, outdated_queries_count, query_ids,
                       status, now, redis_status, clock, enqueued, failures, log, gauges>>

\* lines 62-67: the substitution raises InvalidParameterError
TrackInvalidParameters ==
    \E q \in Candidates :
        /\ SkipReason(q) = "eligible"
        /\ AnyParameters(ParameterDict(q.parameters))
        /\ applied' = Append(applied, ApplyCall(q, InvalidParameterError))
        /\ TrackFailure(q, InvalidParametersError(q.id, "invalid"))
        /\ Advance(q)
        /\ UNCHANGED <<tvars, svars, xvars, pc, feature_disabled, outdated, outdated_queries_count, query_ids,
                       status, now, redis_status, clock, enqueued, log, gauges>>

\* mutant: the handler lacks its continue and falls through to enqueue_query
TrackDetachedFallsThrough ==
    \E q \in Candidates :
        \E inner \in InnerIds :
            /\ SkipReason(q) = "eligible"
            /\ AnyParameters(ParameterDict(q.parameters))
            /\ applied' = Append(applied, ApplyCall(q, QueryDetachedFromDataSourceError(inner)))
            /\ TrackFailure(q, DetachedError(q.id, inner))
            /\ Dispatch(q, q.query_text)
            /\ Advance(q)
            /\ UNCHANGED <<tvars, svars, xvars, pc, feature_disabled, outdated, status, now, redis_status, clock,
                           log, gauges>>

\* lines 68-74: the substitution raises QueryDetachedFromDataSourceError
TrackDetached ==
    \E q \in Candidates :
        \E inner \in InnerIds :
            /\ SkipReason(q) = "eligible"
            /\ AnyParameters(ParameterDict(q.parameters))
            /\ applied' = Append(applied, ApplyCall(q, QueryDetachedFromDataSourceError(inner)))
            /\ TrackFailure(q, DetachedError(q.id, inner))
            /\ Advance(q)
            /\ UNCHANGED <<tvars, svars, xvars, pc, feature_disabled, outdated, outdated_queries_count, query_ids,
                           status, now, redis_status, clock, enqueued, log, gauges>>

\* mutant: the pass waits until the jobs it has enqueued have been executed
GaugeOutdatedAfterJobs ==
    /\ pc = "loop"
    /\ idx = Len(outdated)
    /\ query_jobs_done = Len(enqueued)
    /\ gauges' = Append(gauges, [name |-> "manager.outdated_queries",
                                 value |-> outdated_queries_count])
    /\ pc' = "read"
    /\ UNCHANGED <<tvars, svars, xvars, feature_disabled, outdated, idx, query, outdated_queries_count, query_ids,
                   status, now, redis_status, clock, applied, enqueued, failures, log>>

\* lines 87-92: the enumeration is exhausted
GaugeOutdated ==
    /\ pc = "loop"
    /\ idx = Len(outdated)
    /\ gauges' = Append(gauges, [name |-> "manager.outdated_queries",
                                 value |-> outdated_queries_count])
    /\ pc' = "read"
    /\ UNCHANGED <<tvars, svars, xvars, feature_disabled, outdated, idx, query, outdated_queries_count, query_ids,
                   status, now, redis_status, clock, applied, enqueued, failures, log>>

\* line 94
ReadStatus ==
    /\ pc = "read"
    /\ status' = redis_status
    /\ pc' = "now"
    /\ UNCHANGED <<tvars, svars, xvars, feature_disabled, outdated, idx, query, outdated_queries_count, query_ids,
                   now, redis_status, clock, applied, enqueued, failures, log, gauges>>

\* line 95
TakeNow ==
    /\ pc = "now"
    /\ \E t \in clock..MaxClock :
        /\ now' = t
        /\ clock' = t
    /\ pc' = "write"
    /\ UNCHANGED <<tvars, svars, xvars, feature_disabled, outdated, idx, query, outdated_queries_count, query_ids,
                   status, redis_status, applied, enqueued, failures, log, gauges>>

\* mutant: the count written is the size of the enumeration
NewStatusCountsOutdated ==
    [present |-> TRUE, outdated_queries_count |-> Len(outdated),
     last_refresh_at |-> now, query_ids |-> JsonDumps(query_ids)]

\* lines 97-104: hmset of the three fields
NewStatus ==
    [present |-> TRUE, outdated_queries_count |-> outdated_queries_count,
     last_refresh_at |-> now, query_ids |-> JsonDumps(query_ids)]

\* mutant: the record is written only when something was dispatched
WriteStatusWhenDispatched ==
    /\ pc = "write"
    /\ redis_status' = IF outdated_queries_count > 0 THEN NewStatus ELSE redis_status
    /\ pc' = "since"
    /\ UNCHANGED <<tvars, svars, xvars, feature_disabled, outdated, idx, query, outdated_queries_count, query_ids,
                   status, now, clock, applied, enqueued, failures, log, gauges>>

\* mutant: the write keeps a stored last_refresh_at that is newer than now
WriteStatusKeepsNewerTimestamp ==
    /\ pc = "write"
    /\ redis_status' =
        IF redis_status.present /\ redis_status.last_refresh_at > now
        THEN [NewStatus EXCEPT !.last_refresh_at = redis_status.last_refresh_at]
        ELSE NewStatus
    /\ pc' = "since"
    /\ UNCHANGED <<tvars, svars, xvars, feature_disabled, outdated, idx, query, outdated_queries_count, query_ids,
                   status, now, clock, applied, enqueued, failures, log, gauges>>

WriteStatus ==
    /\ pc = "write"
    /\ redis_status' = NewStatus
    /\ pc' = "since"
    /\ UNCHANGED <<tvars, svars, xvars, feature_disabled, outdated, idx, query, outdated_queries_count, query_ids,
                   status, now, clock, applied, enqueued, failures, log, gauges>>

\* mutant: the gauge is computed from the record as stored after the hmset
SecondsSinceOwnWrite ==
    now - (IF redis_status.present THEN redis_status.last_refresh_at ELSE now)

\* lines 106-108: status.get("last_refresh_at", now)
SecondsSinceRefresh == now - (IF status.present THEN status.last_refresh_at ELSE now)

GaugeSince ==
    /\ pc = "since"
    /\ gauges' = Append(gauges, [name |-> "manager.seconds_since_refresh",
                                 value |-> SecondsSinceRefresh])
    /\ pc' = "done"
    /\ UNCHANGED <<tvars, svars, xvars, feature_disabled, outdated, idx, query, outdated_queries_count, query_ids,
                   status, now, redis_status, clock, applied, enqueued, failures, log>>

NextQueries ==
    \/ Begin
    \/ SkipFeatureDisabled
    \/ SkipOrgDisabled
    \/ SkipNoDataSource
    \/ SkipPaused
    \/ DispatchStored
    \/ DispatchApplied
    \/ TrackInvalidParameters
    \/ TrackDetached
    \/ GaugeOutdated
    \/ ReadStatus
    \/ TakeNow
    \/ WriteStatus
    \/ GaugeSince

\* -------------------------------------------------------- refresh_schema
SourceIds == 1..MaxSources
SourceName(id) == <<"ds", ToString(id)>>

IdleTask ==
    /\ task_pc = "idle"
    /\ data_source_id = 0
    /\ ds = [id |-> 0, name |-> <<>>]
    /\ alarm = "armed"
    /\ incrs = <<>>
    /\ task_log = <<>>
    /\ counters = [success |-> 0, timeout |-> 0, error |-> 0]
    /\ runs = 0

\* positions inside the try block of lines 143-150
InTry == {"fetch", "finished", "success", "try_end"}
\* positions before the try block, inside the except Exception handler, and
\* after the try statement
OutsideTry == {"lookup", "start", "failed_warning", "error_incr", "failed_info", "end"}

\* mutant: except Exception placed ahead of except JobTimeoutException
HandlerGenericFirst(exception) == "failed_warning"

\* lines 151 and 158: the except clause that takes an exception raised in the
\* try block; JobTimeoutException is an Exception, so the order decides
Handler(exception) ==
    IF exception = "JobTimeoutException" THEN "timeout_log" ELSE "failed_warning"

Incr(name) ==
    /\ incrs' = Append(incrs, name)
    /\ counters' = [counters EXCEPT ![name] = @ + 1]

\* the worker takes a refresh_schema job off the "schemas" queue and arms its
\* timeout (line 138-139)
StartTask ==
    /\ task_pc \in {"idle", "returned", "raised"}
    /\ runs < MaxRuns
    /\ \E id \in SourceIds : data_source_id' = id
    /\ task_pc' = "lookup"
    /\ alarm' = "armed"
    /\ incrs' = <<>>
    /\ task_log' = <<>>
    /\ runs' = runs + 1
    /\ UNCHANGED <<qvars, svars, xvars, ds, counters>>

\* line 140: get_by_id returns the row
LookupReturns ==
    /\ task_pc = "lookup"
    /\ ds' = [id |-> data_source_id, name |-> SourceName(data_source_id)]
    /\ task_pc' = "start"
    /\ UNCHANGED <<qvars, svars, xvars, data_source_id, alarm, incrs, task_log, counters, runs>>

\* line 140: get_by_id raises (no such row, store unreachable); the call is
\* not inside the try block
LookupRaises ==
    /\ task_pc = "lookup"
    /\ task_pc' = "raised"
    /\ UNCHANGED <<qvars, svars, xvars, data_source_id, ds, alarm, incrs, task_log, counters, runs>>

\* lines 141-142
LogStart ==
    /\ task_pc = "start"
    /\ task_log' = Append(task_log, <<"state=start", ToString(ds.id)>>)
    /\ task_pc' = "fetch"
    /\ UNCHANGED <<qvars, svars, xvars, data_source_id, ds, alarm, incrs, counters, runs>>

\* line 144: get_schema returns
FetchReturns ==
    /\ task_pc = "fetch"
    /\ task_pc' = "finished"
    /\ UNCHANGED <<qvars, svars, xvars, data_source_id, ds, alarm, incrs, task_log, counters, runs>>

\* line 144: get_schema raises an exception other than the job timeout
FetchRaises ==
    /\ task_pc = "fetch"
    /\ task_pc' = Handler("Exception")
    /\ UNCHANGED <<qvars, svars, xvars, data_source_id, ds, alarm, incrs, task_log, counters, runs>>

\* the worker's alarm raises JobTimeoutException in the job while it is in
\* the try block
JobTimeoutInTry ==
    /\ alarm = "armed"
    /\ task_pc \in InTry
    /\ alarm' = task_pc
    /\ task_pc' = Handler("JobTimeoutException")
    /\ UNCHANGED <<qvars, svars, xvars, data_source_id, ds, incrs, task_log, counters, runs>>

\* the alarm raises JobTimeoutException where no except clause of the job
\* takes it
JobTimeoutOutsideTry ==
    /\ alarm = "armed"
    /\ task_pc \in OutsideTry
    /\ alarm' = task_pc
    /\ task_pc' = "raised"
    /\ UNCHANGED <<qvars, svars, xvars, data_source_id, ds, incrs, task_log, counters, runs>>

\* lines 145-149
LogFinished ==
    /\ task_pc = "finished"
    /\ task_log' = Append(task_log, <<"state=finished", ToString(ds.id)>>)
    /\ task_pc' = "success"
    /\ UNCHANGED <<qvars, svars, xvars, data_source_id, ds, alarm, incrs, counters, runs>>

\* line 150
IncrSuccess ==
    /\ task_pc = "success"
    /\ Incr("success")
    /\ task_pc' = "try_end"
    /\ UNCHANGED <<qvars, svars, xvars, data_source_id, ds, alarm, task_log, runs>>

\* the try block is left without an exception
LeaveTry ==
    /\ task_pc = "try_end"
    /\ task_pc' = "end"
    /\ UNCHANGED <<qvars, svars, xvars, data_source_id, ds, alarm, incrs, task_log, counters, runs>>

\* lines 152-156
LogTimeout ==
    /\ task_pc = "timeout_log"
    /\ task_log' = Append(task_log, <<"state=timeout", ToString(ds.id)>>)
    /\ task_pc' = "timeout_incr"
    /\ UNCHANGED <<qvars, svars, xvars, data_source_id, ds, alarm, incrs, counters, runs>>

\* line 157
IncrTimeout ==
    /\ task_pc = "timeout_incr"
    /\ Incr("timeout")
    /\ task_pc' = "end"
    /\ UNCHANGED <<qvars, svars, xvars, data_source_id, ds, alarm, task_log, runs>>

\* lines 159-161
LogWarning ==
    /\ task_pc = "failed_warning"
    /\ task_log' = Append(task_log, <<"Failed refreshing schema for the data source: %s">> \o ds.name)
    /\ task_pc' = "error_incr"
    /\ UNCHANGED <<qvars, svars, xvars, data_source_id, ds, alarm, incrs, counters, runs>>

\* line 162
IncrError ==
    /\ task_pc = "error_incr"
    /\ Incr("error")
    /\ task_pc' = "failed_info"
    /\ UNCHANGED <<qvars, svars, xvars, data_source_id, ds, alarm, task_log, runs>>

\* lines 163-167
LogFailed ==
    /\ task_pc = "failed_info"
    /\ task_log' = Append(task_log, <<"state=failed", ToString(ds.id)>>)
    /\ task_pc' = "end"
    /\ UNCHANGED <<qvars, svars, xvars, data_source_id, ds, alarm, incrs, counters, runs>>

\* the function returns to the worker
Return ==
    /\ task_pc = "end"
    /\ task_pc' = "returned"
    /\ UNCHANGED <<qvars, svars, xvars, data_source_id, ds, alarm, incrs, task_log, counters, runs>>

NextTask ==
    \/ StartTask
    \/ LookupReturns
    \/ LookupRaises
    \/ LogStart
    \/ FetchReturns
    \/ FetchRaises
    \/ JobTimeoutInTry
    \/ JobTimeoutOutsideTry
    \/ LogFinished
    \/ IncrSuccess
    \/ LeaveTry
    \/ LogTimeout
    \/ IncrTimeout
    \/ LogWarning
    \/ IncrError
    \/ LogFailed
    \/ Return

\* ------------------------------------------------------- refresh_schemas
SourceRows(id) ==
    { [id |-> id, paused |-> paused,
       pause_reason |-> IF paused THEN "maintenance" ELSE "None",
       org |-> [is_disabled |-> disabled]] : paused \in BOOLEAN, disabled \in BOOLEAN }

\* the data source table: rows with ids 1..n
SourceTables ==
    UNION {{t \in [1..n -> UNION {SourceRows(id) : id \in SourceIds}] :
                \A i \in 1..n : t[i].id = i} : n \in 0..MaxSources}

\* members of the redis set: decimal ids, and the empty member the
\* comprehension filters out
BlacklistMembers == {""} \cup {ToString(id) : id \in SourceIds}

\* int(ds_id)
IntOf(member) == CHOOSE id \in SourceIds : ToString(id) = member

\* lines 174-178: [int(ds_id) for ds_id in smembers(...) if ds_id]
ReadIds(members) == {IntOf(m) : m \in {x \in members : x # ""}}

\* mutant: the blacklist test moved ahead of the paused test
SourceDispositionBlacklistFirst(row) ==
    IF row.id \in blacklist THEN "blacklist"
    ELSE IF row.paused THEN "paused"
    ELSE IF row.org.is_disabled THEN "org_disabled"
    ELSE "submit"

\* the if/elif chain of lines 184-199
SourceDisposition(row) ==
    IF row.paused THEN "paused"
    ELSE IF row.id \in blacklist THEN "blacklist"
    ELSE IF row.org.is_disabled THEN "org_disabled"
    ELSE "submit"

NoPass == [sched_log |-> <<>>, submitted |-> <<>>]

IdleSchemas ==
    /\ sched_pc = "idle"
    /\ last_pass = NoPass
    /\ blacklist_store = {}
    /\ blacklist = {}
    /\ sources = <<>>
    /\ scanned = 0
    /\ sched_log = <<>>
    /\ submitted = <<>>

InitSchemas ==
    /\ sched_pc = "idle"
    /\ last_pass = NoPass
    /\ blacklist_store \in SUBSET BlacklistMembers
    /\ blacklist = {}
    /\ sources \in SourceTables
    /\ scanned = 0
    /\ sched_log = <<>>
    /\ submitted = <<>>

\* mutant: a blacklist read by an earlier pass is used again
ReadBlacklistCached ==
    /\ sched_pc = "idle"
    /\ blacklist' = IF last_pass = NoPass THEN ReadIds(blacklist_store) ELSE blacklist
    /\ sched_pc' = "scan"
    /\ UNCHANGED <<qvars, tvars, xvars, last_pass, blacklist_store, sources, scanned, sched_log, submitted>>

\* lines 174-181
ReadBlacklist ==
    /\ sched_pc = "idle"
    /\ blacklist' = ReadIds(blacklist_store)
    /\ sched_pc' = "scan"
    /\ UNCHANGED <<qvars, tvars, xvars, last_pass, blacklist_store, sources, scanned, sched_log, submitted>>

\* line 183: the row the next iteration binds to ds
NextRows == IF sched_pc = "scan" /\ scanned < Len(sources) THEN {sources[scanned + 1]} ELSE {}

SkipLine(reason, row, detail) == [reason |-> reason, ds_id |-> row.id, detail |-> detail]

\* lines 184-189
SkipPausedSource ==
    \E row \in NextRows :
        /\ SourceDisposition(row) = "paused"
        /\ sched_log' = Append(sched_log, SkipLine("paused", row, row.pause_reason))
        /\ scanned' = scanned + 1
        /\ UNCHANGED <<qvars, tvars, xvars, last_pass, sched_pc, blacklist_store, blacklist, sources, submitted>>

\* lines 190-193
SkipBlacklisted ==
    \E row \in NextRows :
        /\ SourceDisposition(row) = "blacklist"
        /\ sched_log' = Append(sched_log, SkipLine("blacklist", row, ""))
        /\ scanned' = scanned + 1
        /\ UNCHANGED <<qvars, tvars, xvars, last_pass, sched_pc, blacklist_store, blacklist, sources, submitted>>

\* lines 194-197
SkipOrgDisabledSource ==
    \E row \in NextRows :
        /\ SourceDisposition(row) = "org_disabled"
        /\ sched_log' = Append(sched_log, SkipLine("org_disabled", row, ""))
        /\ scanned' = scanned + 1
        /\ UNCHANGED <<qvars, tvars, xvars, last_pass, sched_pc, blacklist_store, blacklist, sources, submitted>>

\* lines 198-199: refresh_schema.delay(ds.id)
SubmitRefreshSchema ==
    \E row \in NextRows :
        /\ SourceDisposition(row) = "submit"
        /\ submitted' = Append(submitted, row.id)
        /\ scanned' = scanned + 1
        /\ UNCHANGED <<qvars, tvars, xvars, last_pass, sched_pc, blacklist_store, blacklist, sources, sched_log>>

\* lines 201-204: the table is exhausted
FinishSchemas ==
    /\ sched_pc = "scan"
    /\ scanned = Len(sources)
    /\ sched_pc' = "done"
    /\ UNCHANGED <<qvars, tvars, xvars, last_pass, blacklist_store, blacklist, sources, scanned, sched_log, submitted>>

NextSchemas ==
    \/ ReadBlacklist
    \/ SkipPausedSource
    \/ SkipBlacklisted
    \/ SkipOrgDisabledSource
    \/ SubmitRefreshSchema
    \/ FinishSchemas

\* ------------------------- refresh_schemas: passes and a changing blacklist
\* the pass returns and the scheduler may start the next one
ReturnSchemas ==
    /\ sched_pc = "done"
    /\ last_pass' = [sched_log |-> sched_log, submitted |-> submitted]
    /\ sched_log' = <<>>
    /\ submitted' = <<>>
    /\ scanned' = 0
    /\ sched_pc' = "idle"
    /\ UNCHANGED <<qvars, tvars, xvars, blacklist_store, blacklist, sources>>

\* outside the job: a data source is put on the blacklist
AddToBlacklist ==
    \E id \in SourceIds :
        /\ ToString(id) \notin blacklist_store
        /\ blacklist_store' = blacklist_store \cup {ToString(id)}
        /\ UNCHANGED <<qvars, tvars, xvars, last_pass, sched_pc, blacklist, sources, scanned, sched_log,
                       submitted>>

\* outside the job: a data source is taken off the blacklist
RemoveFromBlacklist ==
    \E id \in SourceIds :
        /\ ToString(id) \in blacklist_store
        /\ blacklist_store' = blacklist_store \ {ToString(id)}
        /\ UNCHANGED <<qvars, tvars, xvars, last_pass, sched_pc, blacklist, sources, scanned, sched_log,
                       submitted>>

NextBlacklist ==
    \/ ReadBlacklist
    \/ SkipPausedSource
    \/ SkipBlacklisted
    \/ SkipOrgDisabledSource
    \/ SubmitRefreshSchema
    \/ FinishSchemas
    \/ ReturnSchemas
    \/ AddToBlacklist
    \/ RemoveFromBlacklist

\* ------------------------------------ refresh_queries: collaborators raise
\* mutant: the error of enqueue_query is swallowed and the loop goes on
EnqueueRaisesSwallowed ==
    \E q \in Candidates :
        /\ SkipReason(q) = "eligible"
        /\ applied' = IF AnyParameters(ParameterDict(q.parameters))
                      THEN Append(applied, ApplyCall(q, Returned))
                      ELSE applied
        /\ Advance(q)
        /\ UNCHANGED <<tvars, svars, xvars, pc, feature_disabled, outdated,
                       outdated_queries_count, query_ids, status, now, redis_status, clock,
                       enqueued, failures, log, gauges>>

\* lines 76-82: enqueue_query raises; no except clause of refresh_queries
\* takes the error, which leaves the function
EnqueueRaises ==
    \E q \in Candidates :
        /\ SkipReason(q) = "eligible"
        /\ applied' = IF AnyParameters(ParameterDict(q.parameters))
                      THEN Append(applied, ApplyCall(q, Returned))
                      ELSE applied
        /\ Advance(q)
        /\ pc' = "enqueue_raised"
        /\ UNCHANGED <<tvars, svars, xvars, feature_disabled, outdated, outdated_queries_count,
                       query_ids, status, now, redis_status, clock, enqueued, failures, log,
                       gauges>>

\* lines 66 and 73: track_failure raises inside the except clause; the error
\* leaves the function
TrackFailureRaises ==
    \E q \in Candidates :
        \E outcome \in {InvalidParameterError}
                        \cup {QueryDetachedFromDataSourceError(inner) : inner \in InnerIds} :
            /\ SkipReason(q) = "eligible"
            /\ AnyParameters(ParameterDict(q.parameters))
            /\ applied' = Append(applied, ApplyCall(q, outcome))
            /\ Advance(q)
            /\ pc' = "track_failure_raised"
            /\ UNCHANGED <<tvars, svars, xvars, feature_disabled, outdated,
                           outdated_queries_count, query_ids, status, now, redis_status, clock,
                           enqueued, failures, log, gauges>>

NextFaults ==
    \/ Begin
    \/ SkipFeatureDisabled
    \/ SkipOrgDisabled
    \/ SkipNoDataSource
    \/ SkipPaused
    \/ DispatchStored
    \/ DispatchApplied
    \/ TrackInvalidParameters
    \/ TrackDetached
    \/ EnqueueRaises
    \/ TrackFailureRaises
    \/ GaugeOutdated
    \/ ReadStatus
    \/ TakeNow
    \/ WriteStatus
    \/ GaugeSince

\* ------------------------------- refresh_queries: an overlapping invocation
\* lines 31-37 of the first invocation, for an enumeration of at most one query
BeginOne ==
    /\ Begin
    /\ Len(outdated') <= 1

\* lines 84-85, as the loop of the other invocation leaves them
OtherResults == {[count |-> Len(ids), ids |-> ids] : ids \in {<<>>} \cup {<<i>> : i \in QueryIds}}

\* lines 37-92 of the other invocation
OtherLoop ==
    /\ other_pc = "idle"
    /\ other_result' \in OtherResults
    /\ other_pc' = "read"
    /\ UNCHANGED <<qvars, tvars, svars, cvars, jvars, other_status, other_now, other_after>>

\* line 94
OtherReadStatus ==
    /\ other_pc = "read"
    /\ other_status' = redis_status
    /\ other_pc' = "now"
    /\ UNCHANGED <<qvars, tvars, svars, cvars, jvars, other_result, other_now, other_after>>

\* line 95
OtherTakeNow ==
    /\ other_pc = "now"
    /\ \E t \in clock..MaxClock :
        /\ other_now' = t
        /\ clock' = t
    /\ other_pc' = "write"
    /\ UNCHANGED <<tvars, svars, cvars, jvars, pc, feature_disabled, outdated, idx, query,
                   outdated_queries_count, query_ids, status, now, redis_status, applied,
                   enqueued, failures, log, gauges, other_result, other_status, other_after>>

\* lines 97-104, the record of the other invocation
OtherNewStatus ==
    [present |-> TRUE, outdated_queries_count |-> other_result.count,
     last_refresh_at |-> other_now, query_ids |-> JsonDumps(other_result.ids)]

\* lines 97-104: one hmset command
OtherWriteStatus ==
    /\ other_pc = "write"
    /\ redis_status' = OtherNewStatus
    /\ other_after' = (pc \in {"since", "done"})
    /\ other_pc' = "since"
    /\ UNCHANGED <<tvars, svars, cvars, jvars, pc, feature_disabled, outdated, idx, query,
                   outdated_queries_count, query_ids, status, now, clock, applied, enqueued,
                   failures, log, gauges, other_result, other_status, other_now>>

\* lines 106-108
OtherGaugeSince ==
    /\ other_pc = "since"
    /\ gauges' = Append(gauges,
                        [name |-> "manager.seconds_since_refresh",
                         value |-> other_now - (IF other_status.present
                                                THEN other_status.last_refresh_at
                                                ELSE other_now)])
    /\ other_pc' = "done"
    /\ UNCHANGED <<tvars, svars, cvars, jvars, pc, feature_disabled, outdated, idx, query,
                   outdated_queries_count, query_ids, status, now, redis_status, clock, applied,
                   enqueued, failures, log, other_result, other_status, other_now,
                   other_after>>

NextOverlap ==
    \/ BeginOne
    \/ SkipFeatureDisabled
    \/ SkipOrgDisabled
    \/ SkipNoDataSource
    \/ SkipPaused
    \/ DispatchStored
    \/ DispatchApplied
    \/ TrackInvalidParameters
    \/ TrackDetached
    \/ GaugeOutdated
    \/ ReadStatus
    \/ TakeNow
    \/ WriteStatus
    \/ GaugeSince
    \/ OtherLoop
    \/ OtherReadStatus
    \/ OtherTakeNow
    \/ OtherWriteStatus
    \/ OtherGaugeSince

\* -------------------------------------------------- cleanup_query_results
ResultIds == 1..MaxResults
\* the tables: each id is the key of one row
ResultTables ==
    {{[id |-> i, age |-> t[i].age, linked |-> t[i].linked] : i \in ResultIds} :
        t \in [ResultIds -> [age : 0..MaxDays, linked : BOOLEAN]]}

\* QueryResult.unused(days): the rows no query links to that are days old or
\* more
Unused(rows, days) == {r \in rows : ~r.linked /\ r.age >= days}

\* mutant: the selection is not limited
LimitDropped(rows, n) == {rows}

\* .limit(n) of a selection without an ordering: any n of its rows, or all of
\* them when there are fewer
Limit(rows, n) ==
    {sel \in SUBSET rows :
        Cardinality(sel) = (IF Cardinality(rows) < n THEN Cardinality(rows) ELSE n)}

InitCleanup ==
    /\ cleanup_pc = "idle"
    /\ query_results \in ResultTables
    /\ deleted = {}
    /\ deleted_count = 0

\* lines 119-123
CleanupLogRunning ==
    /\ cleanup_pc = "idle"
    /\ deleted' = {}
    /\ deleted_count' = 0
    /\ cleanup_pc' = "delete"
    /\ UNCHANGED <<qvars, tvars, svars, ovars, jvars, query_results>>

\* lines 126-133: one DELETE statement over the limited selection
CleanupDelete ==
    /\ cleanup_pc = "delete"
    /\ \E sel \in Limit(Unused(query_results, QUERY_RESULTS_CLEANUP_MAX_AGE),
                        QUERY_RESULTS_CLEANUP_COUNT) :
        /\ query_results' = {r \in query_results : r.id \notin {d.id : d \in sel}}
        /\ deleted' = sel
        /\ deleted_count' = Cardinality(sel)
    /\ cleanup_pc' = "commit"
    /\ UNCHANGED <<qvars, tvars, svars, ovars, jvars>>

\* line 134
CleanupCommit ==
    /\ cleanup_pc = "commit"
    /\ cleanup_pc' = "log"
    /\ UNCHANGED <<qvars, tvars, svars, ovars, jvars, query_results, deleted, deleted_count>>

\* line 135, and the job returns; the scheduler may run it again
CleanupLogDeleted ==
    /\ cleanup_pc = "log"
    /\ cleanup_pc' = "idle"
    /\ UNCHANGED <<qvars, tvars, svars, ovars, jvars, query_results, deleted, deleted_count>>

\* outside the job: a day passes
DayPasses ==
    /\ query_results # {}
    /\ \A r \in query_results : r.age < MaxDays
    /\ query_results' = {[r EXCEPT !.age = r.age + 1] : r \in query_results}
    /\ UNCHANGED <<qvars, tvars, svars, ovars, jvars, cleanup_pc, deleted, deleted_count>>

\* outside the job: a query starts to link to a stored result
LinkResult ==
    \E r \in query_results :
        /\ ~r.linked
        /\ query_results' = (query_results \ {r}) \cup {[r EXCEPT !.linked = TRUE]}
        /\ UNCHANGED <<qvars, tvars, svars, ovars, jvars, cleanup_pc, deleted, deleted_count>>

\* outside the job: the last query linking to a result lets go of it
UnlinkResult ==
    \E r \in query_results :
        /\ r.linked
        /\ query_results' = (query_results \ {r}) \cup {[r EXCEPT !.linked = FALSE]}
        /\ UNCHANGED <<qvars, tvars, svars, ovars, jvars, cleanup_pc, deleted, deleted_count>>

NextCleanup ==
    \/ CleanupLogRunning
    \/ CleanupDelete
    \/ CleanupCommit
    \/ CleanupLogDeleted
    \/ DayPasses
    \/ LinkResult
    \/ UnlinkResult

\* ------------------------------------- the passes and the jobs they dispatch
\* the worker that runs the periodic jobs takes one job at a time: it starts
\* refresh_queries while it is not in refresh_schemas
StartQueriesPass ==
    /\ sched_pc \in {"idle", "done"}
    /\ BeginOne

\* and refresh_schemas while it is not in refresh_queries
StartSchemasPass ==
    /\ pc \in {"idle", "done"}
    /\ ReadBlacklist

\* line 183: the tables with MaxSources rows
FullTables == {t \in SourceTables : Len(t) = MaxSources}

InitFullSchemas ==
    /\ InitSchemas
    /\ sources \in FullTables
    /\ blacklist_store \in {{}, {ToString(1)}}

\* lines 76-82: another worker executes a job enqueue_query has queued
ExecuteQueryJob ==
    /\ query_jobs_done < Len(enqueued)
    /\ query_jobs_done' = query_jobs_done + 1
    /\ UNCHANGED <<qvars, tvars, svars, ovars, cvars, schema_jobs_done>>

\* line 199: another worker executes a job refresh_schema.delay has queued
ExecuteSchemaJob ==
    /\ schema_jobs_done < Len(submitted)
    /\ schema_jobs_done' = schema_jobs_done + 1
    /\ UNCHANGED <<qvars, tvars, svars, ovars, cvars, query_jobs_done>>

NextDispatch ==
    \/ StartQueriesPass
    \/ SkipFeatureDisabled
    \/ SkipOrgDisabled
    \/ SkipNoDataSource
    \/ SkipPaused
    \/ DispatchStored
    \/ DispatchApplied
    \/ TrackInvalidParameters
    \/ TrackDetached
    \/ GaugeOutdated
    \/ ReadStatus
    \/ TakeNow
    \/ WriteStatus
    \/ GaugeSince
    \/ StartSchemasPass
    \/ SkipPausedSource
    \/ SkipBlacklisted
    \/ SkipOrgDisabledSource
    \/ SubmitRefreshSchema
    \/ FinishSchemas
    \/ ExecuteQueryJob
    \/ ExecuteSchemaJob

\* ------------------------------------------------------------ idle parts
IdleOther ==
    /\ other_pc = "idle"
    /\ other_result = [count |-> 0, ids |-> <<>>]
    /\ other_status = NoStatus
    /\ other_now = 0
    /\ other_after = FALSE

IdleCleanup ==
    /\ cleanup_pc = "idle"
    /\ query_results = {}
    /\ deleted = {}
    /\ deleted_count = 0

IdleJobs ==
    /\ query_jobs_done = 0
    /\ schema_jobs_done = 0

\* ------------------------------------------------------- specifications
IdleQueries ==
    /\ InitQueries
    /\ feature_disabled = FALSE
    /\ redis_status = NoStatus

Init == InitQueries /\ IdleTask /\ IdleSchemas /\ IdleOther /\ IdleCleanup /\ IdleJobs
Next == NextQueries
Spec == Init /\ [][Next]_vars

SpecFaults == Init /\ [][NextFaults]_vars

SpecOverlap == Init /\ [][NextOverlap]_vars

InitCleanupRuns ==
    IdleQueries /\ IdleTask /\ IdleSchemas /\ IdleOther /\ InitCleanup /\ IdleJobs
SpecCleanup == InitCleanupRuns /\ [][NextCleanup]_vars

InitSchemaTask ==
    IdleQueries /\ IdleTask /\ IdleSchemas /\ IdleOther /\ IdleCleanup /\ IdleJobs
SpecSchemaTask == InitSchemaTask /\ [][NextTask]_vars

InitSchemasPass ==
    IdleQueries /\ IdleTask /\ InitSchemas /\ IdleOther /\ IdleCleanup /\ IdleJobs
SpecSchemas == InitSchemasPass /\ [][NextSchemas]_vars

SpecBlacklist == InitSchemasPass /\ [][NextBlacklist]_vars

InitDispatch ==
    InitQueries /\ IdleTask /\ InitFullSchemas /\ IdleOther /\ IdleCleanup /\ IdleJobs
SpecDispatch == InitDispatch /\ [][NextDispatch]_vars

\* ---------------------------------------------------------------------
\* Properties of refresh_queries
\* ---------------------------------------------------------------------
AfterLoop == {"read", "now", "write", "since", "done"}
Written == {"since", "done"}

Dispatches(id) == Cardinality({k \in DOMAIN enqueued : enqueued[k].scheduled_query = id})
TrackedFailures(id) == Cardinality({k \in DOMAIN failures : failures[k].query = id})
Skips(i) == Cardinality({k \in DOMAIN log : log[k].at = i})
Applications(id) == Cardinality({k \in DOMAIN applied : applied[k].query = id})
Dispositions(i) == Dispatches(outdated[i]) + Skips(i) + TrackedFailures(outdated[i])

FeatureDisabledLine == "Disabled refresh queries."
OrgDisabledLine == "Skipping refresh of %s because org is disabled."
NoDataSourceLine == "Skipping refresh of %s because the datasource is none."
PausedLine == "Skipping refresh of %s because datasource - %s is paused (%s)."
SkipLines == {FeatureDisabledLine, OrgDisabledLine, NoDataSourceLine, PausedLine}

FailureKinds == {"InvalidParameterError", "QueryDetachedFromDataSourceError"}
FailedApplications(id) ==
    {k \in DOMAIN applied : applied[k].query = id /\ applied[k].outcome.kind \in FailureKinds}

\* the message carries the decimal form of n
NamesId(message, n) == \E t \in DOMAIN message : message[t] = ToString(n)

\* json.loads of a list of integers written by JsonDumps
Number(token) == CHOOSE n \in QueryIds \cup InnerIds : ToString(n) = token
JsonLoads(tokens) == [k \in 1..((Len(tokens) - 1) \div 2) |-> Number(tokens[2 * k])]

\* the ids of the dispatched queries, in enumeration order
DispatchedInOrder ==
    LET WasDispatched(id) == Dispatches(id) >= 1
    IN SelectSeq(outdated, WasDispatched)

C2_AllNullNotSubstituted ==
    ( /\ idx >= 1
      /\ ~feature_disabled
      /\ ~query.org.is_disabled
      /\ query.data_source # NoDataSource
      /\ ~query.data_source.paused
      /\ query.parameters # <<>>
      /\ \A i \in DOMAIN query.parameters : query.parameters[i].value = None )
    => /\ Applications(query.id) = 0
       /\ \E k \in DOMAIN enqueued :
            /\ enqueued[k].scheduled_query = query.id
            /\ enqueued[k].query_text = query.query_text

\* C3: a query whose substitution raised QueryDetachedFromDataSourceError is
\* not passed to enqueue_query, its id is not in query_ids, and exactly one
\* track_failure call is made for it, whose message names the query's id and
\* the id of the detached inner query.
C3_DetachedTracked ==
    \A k \in DOMAIN applied :
        applied[k].outcome.kind = "QueryDetachedFromDataSourceError" =>
            LET id == applied[k].query
                inner == applied[k].outcome.query_id
            IN /\ Dispatches(id) = 0
               /\ \A j \in DOMAIN query_ids : query_ids[j] # id
               /\ TrackedFailures(id) = 1
               /\ \A j \in DOMAIN failures :
                    failures[j].query = id =>
                        /\ NamesId(failures[j].error, id)
                        /\ NamesId(failures[j].error, inner)

C3_Witness ==
    /\ pc = "done"
    /\ \E k \in DOMAIN applied : applied[k].outcome.kind = "QueryDetachedFromDataSourceError"

C5_FirstMatch ==
    idx >= 1 =>
        LET expected ==
                CASE feature_disabled -> FeatureDisabledLine
                  [] ~feature_disabled /\ query.org.is_disabled -> OrgDisabledLine
                  [] ~feature_disabled /\ ~query.org.is_disabled
                        /\ query.data_source = NoDataSource -> NoDataSourceLine
                  [] ~feature_disabled /\ ~query.org.is_disabled
                        /\ query.data_source # NoDataSource
                        /\ query.data_source.paused -> PausedLine
                  [] OTHER -> "eligible"
        IN IF expected = "eligible"
           THEN /\ Skips(idx) = 0
                /\ Dispatches(query.id) + TrackedFailures(query.id) = 1
           ELSE /\ Skips(idx) = 1
                /\ \A k \in DOMAIN log : log[k].at = idx => log[k].msg = expected
                /\ Dispatches(query.id) = 0
                /\ TrackedFailures(query.id) = 0
                /\ Applications(query.id) = 0

C5_Witness ==
    /\ idx >= 1
    /\ ~feature_disabled
    /\ query.org.is_disabled
    /\ query.data_source # NoDataSource
    /\ query.data_source.paused

\* C6: once the pass has written the status record, its count is the number
\* of enqueue_query calls of the pass and its id list decodes to the ids of
\* the dispatched queries in enumeration order; in every record present the
\* count is the length of the id list.
C6_StatusRecord ==
    /\ pc \in Written =>
        /\ redis_status.present
        /\ redis_status.outdated_queries_count = Len(enqueued)
        /\ JsonLoads(redis_status.query_ids) = DispatchedInOrder
        /\ JsonLoads(redis_status.query_ids) = [k \in DOMAIN enqueued |-> enqueued[k].scheduled_query]
    /\ redis_status.present =>
        redis_status.outdated_queries_count = Len(JsonLoads(redis_status.query_ids))

C6_Witness ==
    /\ pc = "done"
    /\ Len(outdated) = 2
    /\ Len(enqueued) = 1
    /\ failures = <<>>

\* C7: a pass over an empty enumeration still overwrites the status record,
\* with count 0, the empty id list and the time read in this pass.
C7_EmptyPassWrites ==
    (pc \in Written /\ outdated = <<>>) =>
        /\ redis_status = [present |-> TRUE, outdated_queries_count |-> 0,
                           last_refresh_at |-> now, query_ids |-> <<"[", "]">>]
        /\ now = clock

C7_Witness ==
    /\ pc = "done"
    /\ outdated = <<>>
    /\ status = PreviousStatus
    /\ redis_status.last_refresh_at > status.last_refresh_at

\* ---------------------------------------------------------------------
\* Properties of refresh_schema
\* ---------------------------------------------------------------------
\* C8: an invocation whose get_schema call is interrupted by the job timeout
\* runs the timeout handler and returns: it increments the timeout counter
\* once, increments neither the success nor the error counter, and the
\* exception does not leave the job.
C8_FetchTimeout ==
    alarm = "fetch" =>
        /\ task_pc \in {"timeout_log", "timeout_incr", "end", "returned"}
        /\ \A k \in DOMAIN incrs : incrs[k] = "timeout"
        /\ Len(incrs) = (IF task_pc \in {"end", "returned"} THEN 1 ELSE 0)
        /\ task_pc \in {"timeout_incr", "end", "returned"} =>
                task_log[Len(task_log)][1] = "state=timeout"

C8_Witness ==
    /\ alarm = "fetch"
    /\ task_pc = "returned"
    /\ incrs = <<"timeout">>

\* C9: every invocation ends with exactly one of the outcomes Success,
\* TimedOut, Failed (one counter incremented, once) whatever is raised during
\* it, the lookup of the data source included, and no exception leaves the
\* job.
C9_AlwaysOneOutcome ==
    /\ task_pc # "raised"
    /\ Len(incrs) <= 1
    /\ task_pc = "returned" => Len(incrs) = 1

\* C17 as stated: wherever in the try block the job timeout arrives, during
\* the fetch or after the fetch has returned, the invocation increments one
\* counter, once: never two counters, never success together with timeout,
\* and an invocation that has ended has incremented one.
C17_OneCounterWhereverTimeout ==
    alarm \in InTry =>
        /\ Len(incrs) <= 1
        /\ ~(\E j, k \in DOMAIN incrs : incrs[j] = "success" /\ incrs[k] = "timeout")
        /\ task_pc \in {"returned", "raised"} => Len(incrs) = 1

\* ---------------------------------------------------------------------
\* Properties of refresh_schemas
\* ---------------------------------------------------------------------
SourceSkips(id) == {k \in DOMAIN sched_log : sched_log[k].ds_id = id}
SourceSubmissions(id) == {k \in DOMAIN submitted : submitted[k] = id}

\* C10: every visited data source has one disposition, the first that applies
\* in the order paused, blacklisted, organization disabled, submitted: a
\* skipped one has one log line, with that reason, and no submission, an
\* eligible one has one submission and no log line, and the finished pass has
\* visited every row.
C10_SourceFirstMatch ==
    /\ \A i \in 1..Len(sources) :
        LET row == sources[i]
            listed == ToString(row.id) \in blacklist_store
            expected ==
                CASE row.paused -> "paused"
                  [] ~row.paused /\ listed -> "blacklist"
                  [] ~row.paused /\ ~listed /\ row.org.is_disabled -> "org_disabled"
                  [] OTHER -> "submit"
        IN IF i > scanned
           THEN SourceSkips(row.id) = {} /\ SourceSubmissions(row.id) = {}
           ELSE IF expected = "submit"
           THEN SourceSkips(row.id) = {} /\ Cardinality(SourceSubmissions(row.id)) = 1
           ELSE /\ SourceSubmissions(row.id) = {}
                /\ Cardinality(SourceSkips(row.id)) = 1
                /\ \A k \in SourceSkips(row.id) : sched_log[k].reason = expected
    /\ sched_pc = "done" => scanned = Len(sources)

C10_Witness ==
    /\ sched_pc = "done"
    /\ submitted # <<>>
    /\ \E i \in 1..Len(sources) :
        /\ sources[i].paused
        /\ ToString(sources[i].id) \in blacklist_store

\* ---------------------------------------------------------------------
\* Properties of refresh_queries when its collaborators may raise
\* ---------------------------------------------------------------------
Raised == {"enqueue_raised", "track_failure_raised"}

\* the statements a pass has left to run, at most
Rank ==
    CASE pc = "idle" -> MaxQueries + 6
      [] pc = "loop" -> 5 + (Len(outdated) - idx)
      [] pc = "read" -> 4
      [] pc = "now" -> 3
      [] pc = "write" -> 2
      [] pc = "since" -> 1
      [] OTHER -> 0

StatusOverwritten ==
    /\ redis_status.present
    /\ redis_status.last_refresh_at = now
    /\ redis_status.outdated_queries_count = outdated_queries_count
    /\ redis_status.query_ids = JsonDumps(query_ids)

\* C11 as stated: a started pass that has stopped has visited every query of
\* its enumeration and has overwritten the status record; no pass stops part
\* way.
C11_NeverStopsPartWay ==
    (pc # "idle" /\ ~ENABLED NextFaults) =>
        /\ pc = "done"
        /\ idx = Len(outdated)
        /\ StatusOverwritten

\* C11, amended: a started pass never stops silently.  While it has not
\* ended, a next statement can run and every statement brings the end nearer;
\* it ends either after the loop has visited every query of the enumeration
\* and the status record has been overwritten, or by an error of enqueue_query
\* or track_failure leaving the function at the query being visited, with the
\* status record as it was before the pass.
C11_CompletesOrRaises ==
    /\ [](/\ pc \in {"idle", "loop"} \cup AfterLoop \cup Raised
          /\ pc \notin {"done"} \cup Raised => ENABLED NextFaults
          /\ pc \in AfterLoop => idx = Len(outdated)
          /\ pc = "done" => StatusOverwritten
          /\ pc \in Raised =>
                /\ idx >= 1
                /\ redis_status \in {NoStatus, PreviousStatus}
                /\ Dispatches(query.id) = 0
                /\ TrackedFailures(query.id) = 0)
    /\ [][Rank' < Rank]_vars

C11_Witness ==
    /\ pc = "done"
    /\ Len(outdated) = 2
    /\ idx = 2
    /\ StatusOverwritten
    /\ Len(enqueued) = 1
    /\ Len(failures) = 1

\* ---------------------------------------------------------------------
\* Properties of overlapping refresh_queries invocations
\* ---------------------------------------------------------------------
OtherWritten == other_pc \in {"since", "done"}

\* C12: under every interleaving of two overlapping passes the stored status
\* record is, whole, the record one pass wrote: before any write it is the
\* record the passes found, afterwards it is the three fields of the pass
\* whose hmset came last, with no field of an earlier write left in it.
C12_LastWriterWins ==
    redis_status =
        IF OtherWritten /\ (other_after \/ pc \notin Written) THEN OtherNewStatus
        ELSE IF pc \in Written THEN NewStatus
        ELSE IF redis_status = NoStatus THEN NoStatus
        ELSE PreviousStatus

\* the first pass took its timestamp first and wrote last
C12_Witness ==
    /\ pc = "done"
    /\ other_pc = "done"
    /\ ~other_after
    /\ other_now > now
    /\ other_result.count # outdated_queries_count
    /\ redis_status = NewStatus

\* ---------------------------------------------------------------------
\* Properties of cleanup_query_results
\* ---------------------------------------------------------------------
\* the rows a step removes from the table
Removed == {r \in query_results : r.id \notin {n.id : n \in query_results'}}

\* C13: a run removes at most QUERY_RESULTS_CLEANUP_COUNT rows, all of them
\* in its one DELETE statement, and every row any step removes was unused
\* just before: no query linked to it and it had reached the age threshold.
\* So no sequence of runs removes a row while it is linked or too young.
C13_DeletesOnlyUnused ==
    [][/\ Removed \subseteq Unused(query_results, QUERY_RESULTS_CLEANUP_MAX_AGE)
       /\ Cardinality(Removed) <= QUERY_RESULTS_CLEANUP_COUNT
       /\ Removed # {} =>
            /\ cleanup_pc = "delete"
            /\ deleted' = Removed
            /\ deleted_count' = Cardinality(Removed)]_vars

\* a run that removed as many rows as it may and left a row that is linked or
\* too young in the table
C13_Witness ==
    /\ cleanup_pc = "log"
    /\ Cardinality(deleted) = QUERY_RESULTS_CLEANUP_COUNT
    /\ deleted_count = QUERY_RESULTS_CLEANUP_COUNT
    /\ \E r \in query_results : r.linked \/ r.age < QUERY_RESULTS_CLEANUP_MAX_AGE

\* ---------------------------------------------------------------------
\* Properties of the seconds_since_refresh gauge
\* ---------------------------------------------------------------------
\* C14: the status local is the record as stored when line 94 read it, before
\* the hmset, and is not read again; the seconds_since_refresh gauge, sent
\* last, is the pass's own now minus the last_refresh_at of that record, and 0
\* when that record did not exist.  It is not computed from the timestamp the
\* pass has just written.
C14_SinceReadRecord ==
    /\ [][pc = "read" => status' = redis_status]_vars
    /\ [][(pc \in {"now", "write", "since"}) => status' = status]_vars
    /\ [][(pc \in {"write", "since"}) => now' = now]_vars
    /\ [](pc \in {"now", "write"} => status = redis_status)
    /\ [](pc = "done" =>
            /\ gauges # <<>>
            /\ gauges[Len(gauges)].name = "manager.seconds_since_refresh"
            /\ gauges[Len(gauges)].value =
                    IF status.present THEN now - status.last_refresh_at ELSE 0
            /\ redis_status.last_refresh_at = now)

\* a pass that found a record and wrote a later timestamp over it
C14_Witness ==
    /\ pc = "done"
    /\ status = PreviousStatus
    /\ now > status.last_refresh_at
    /\ gauges[Len(gauges)].value = now - status.last_refresh_at
    /\ gauges[Len(gauges)].value # now - redis_status.last_refresh_at

\* C15 as stated: an error of track_failure does not end the pass: a pass
\* stops only after its loop has visited every query of the enumeration and
\* the status record has been overwritten, unless it is an error of
\* enqueue_query that ended it.
C15_TrackerErrorContained ==
    (pc \notin {"idle", "enqueue_raised"} /\ ~ENABLED NextFaults) =>
        /\ pc = "done"
        /\ idx = Len(outdated)
        /\ StatusOverwritten

\* C16: an error of enqueue_query leaves the function at once: from then on
\* no statement of the pass runs, so no later query is dispatched, skipped or
\* tracked, and the status record is the one the pass found; the query whose
\* dispatch failed is not recorded as dispatched.
C16_EnqueueErrorPropagates ==
    /\ \A i \in 1..idx : Dispositions(i) = 0 => pc \in Raised /\ i = idx
    /\ pc = "enqueue_raised" =>
        /\ ~ENABLED NextFaults
        /\ redis_status \in {NoStatus, PreviousStatus}
        /\ idx >= 1
        /\ Dispatches(query.id) = 0
        /\ \A i \in 1..Len(outdated) : i >= idx => Dispositions(i) = 0
        /\ Len(query_ids) = Len(enqueued)
        /\ gauges = <<>>

\* the dispatch of the first of two queries failed
C16_Witness ==
    /\ pc = "enqueue_raised"
    /\ Len(outdated) = 2
    /\ idx = 1
    /\ Len(enqueued) = 0
    /\ redis_status = PreviousStatus

\* the ids a pass skipped as blacklisted, by its log lines
SkippedAsBlacklisted(lines) ==
    {lines[k].ds_id : k \in {j \in DOMAIN lines : lines[j].reason = "blacklist"}}

SubmittedIds(calls) == {calls[k] : k \in DOMAIN calls}

\* C18: each pass reads the blacklist once, at its start, from the set as
\* stored then, and tests every row against that reading: the reading is not
\* changed while the pass scans, and a visited row that is not paused is
\* skipped as blacklisted if its id is in the reading and otherwise submitted
\* unless its organization is disabled.  So an id added between two passes
\* is not submitted by the later pass and an id removed is submitted again.
C18_BlacklistReadEachPass ==
    /\ [][(sched_pc = "idle" /\ sched_pc' = "scan") =>
            \A id \in SourceIds : id \in blacklist' <=> ToString(id) \in blacklist_store]_vars
    /\ [][(sched_pc = "scan") => blacklist' = blacklist]_vars
    /\ [](\A i \in 1..scanned :
            ~sources[i].paused =>
                /\ sources[i].id \in SkippedAsBlacklisted(sched_log)
                        <=> sources[i].id \in blacklist
                /\ sources[i].id \in SubmittedIds(submitted)
                        <=> (sources[i].id \notin blacklist /\ ~sources[i].org.is_disabled))

\* a pass that skips an id the pass before submitted and submits an id the
\* pass before skipped as blacklisted, while the set has changed again since
\* the pass read it
C18_Witness ==
    /\ sched_pc = "done"
    /\ \E id \in SubmittedIds(last_pass.submitted) : id \in SkippedAsBlacklisted(sched_log)
    /\ \E id \in SkippedAsBlacklisted(last_pass.sched_log) : id \in SubmittedIds(submitted)
    /\ blacklist # ReadIds(blacklist_store)

\* ---------------------------------------------------------------------
\* Properties of the passes next to the jobs they dispatch
\* ---------------------------------------------------------------------
\* the statements of refresh_queries, whoever's turn it is
QueriesStep ==
    \/ SkipFeatureDisabled
    \/ SkipOrgDisabled
    \/ SkipNoDataSource
    \/ SkipPaused
    \/ DispatchStored
    \/ DispatchApplied
    \/ TrackInvalidParameters
    \/ TrackDetached
    \/ GaugeOutdated
    \/ ReadStatus
    \/ TakeNow
    \/ WriteStatus
    \/ GaugeSince

\* the statements of refresh_schemas
SchemasStep ==
    \/ SkipPausedSource
    \/ SkipBlacklisted
    \/ SkipOrgDisabledSource
    \/ SubmitRefreshSchema
    \/ FinishSchemas

\* C19: a pass does not wait for the jobs it has dispatched: at every
\* position before its end its next statement can run, whether or not any
\* dispatched job has been executed, and no statement of a pass depends on
\* or changes the count of executed jobs; a refresh_queries pass that has
\* ended has written the status record, with the dispatches counted in it.
C19_PassesDoNotWait ==
    /\ [](pc \in {"loop", "read", "now", "write", "since"} => ENABLED QueriesStep)
    /\ [](sched_pc = "scan" => ENABLED SchemasStep)
    /\ [][(pc' # pc \/ sched_pc' # sched_pc) =>
            /\ query_jobs_done' = query_jobs_done
            /\ schema_jobs_done' = schema_jobs_done]_vars
    /\ [](pc = "done" =>
            /\ redis_status.present
            /\ redis_status.outdated_queries_count = Len(enqueued))
    /\ [](sched_pc = "done" => scanned = Len(sources))

\* both passes have ended and none of the jobs they dispatched has run
C19_Witness ==
    /\ pc = "done"
    /\ sched_pc = "done"
    /\ enqueued # <<>>
    /\ submitted # <<>>
    /\ redis_status.outdated_queries_count = Len(enqueued)
    /\ query_jobs_done = 0
    /\ schema_jobs_done = 0

====
